---- MODULE Spec2Model ----
(***************************************************************************)
(* budget-verifier (main.go): reconciliation of a bank statement against   *)
(* budget entries.  The module models                                      *)
(*   - loadFilters / isFiltered / compareTransactions  (Spec)              *)
(*   - parseBankTransactions / parseBudgetTransactions / parseTransaction  *)
(*     (SpecParse, SpecAmount)                                             *)
(* Timestamps are whole days (time.Parse with layout 01/02/2006 yields     *)
(* midnight UTC), so Sub(..).Hours() is 24 * (difference in days) and      *)
(* AddDate(0, 0, n) adds n to the day number.  A *Transaction is the       *)
(* 1-based index of the element in the other slice, 0 standing for nil.    *)
(***************************************************************************)
EXTENDS Integers, Sequences, FiniteSets, TLC

VARIABLES
    pc,                  \* position of main: load / compare / done / fatal / parse / parsed
    filterFile,          \* content of filter.json as loadFilters finds it
    filters,             \* []Filter returned by loadFilters
    bankTransactions,    \* slice handed to compareTransactions
    budgetTransactions,  \* slice handed to compareTransactions
    bankIndex,           \* number of bank transactions the loop has dealt with
    potentialMatches,    \* local of the last iteration (budget indices)
    closest,             \* local of the last iteration (budget index, 0 = nil)
    missingTransactions, \* the result slice (copies of bank transactions)
    missingIndex,        \* bank index each element of missingTransactions was copied from
    profile,             \* which parser runs: "bank" or "budget"
    records,             \* [][]string handed to the parser
    start,               \* local start of parseBankTransactions (0-based, -1 = not found)
    transactions,        \* slice returned by the parser
    parseResult          \* "none" before the call, then "ok", "error" or "panic"

vars == <<pc, filterFile, filters, bankTransactions, budgetTransactions, bankIndex,
          potentialMatches, closest, missingTransactions, missingIndex,
          profile, records, start, transactions, parseResult>>

compareVars == <<filterFile, filters, bankTransactions, budgetTransactions, bankIndex,
                 potentialMatches, closest, missingTransactions, missingIndex>>

parseVars == <<profile, records, start, transactions, parseResult>>

----------------------------------------------------------------------------
(* Bounds of the model *)

MaxBank == 2
MaxBudget == 2

(* Program constants *)

dateMatchRangeDays == 7
closestDurationInit == 99999

----------------------------------------------------------------------------
(* Transactions and filters *)

Transaction(ts, desc, det, amt) ==
    [Timestamp |-> ts, Description |-> desc, Details |-> det, Amount |-> amt, Matching |-> 0]

Filter(re, mn, mx) == [FilterRegex |-> re, MinAmount |-> mn, MaxAmount |-> mx]

BankDays == {4175, 4176}
BudgetDays == {0, 4168, 4169, 4176}
Amounts == {-500, 1200}

(* description and amount of the bank lines: a rent debit, a rent refund, a coffee debit *)
BankLines == {<<"rent", -500>>, <<"rent", 1200>>, <<"coffee", -500>>}

BankInputs == {Transaction(d, l[1], "", l[2]) : d \in BankDays, l \in BankLines}
BudgetInputs == {Transaction(d, "entry", "note", a) : d \in BudgetDays, a \in Amounts}

SeqsUpTo(S, n) == UNION {[1..k -> S] : k \in 0..n}

(* regexp.MatchString(pattern, s): the patterns of the model and the        *)
(* descriptions each matches; "(" does not compile, and MatchString then    *)
(* returns (false, err).                                                    *)
MalformedPatterns == {"("}

PatternMatches(pattern) ==
    CASE pattern = "rent" -> {"rent"}
      [] pattern = "e"    -> {"rent", "coffee"}
      [] OTHER            -> {}

RegexpMatchString(pattern, s) ==
    IF pattern \in MalformedPatterns
      THEN [match |-> FALSE, err |-> TRUE]
      ELSE [match |-> s \in PatternMatches(pattern), err |-> FALSE]

(* filter.json: unreadable, not a JSON list of filters, or a list *)
FilterFiles ==
    { [readable |-> FALSE, json |-> FALSE, list |-> << >>],
      [readable |-> TRUE,  json |-> FALSE, list |-> << >>],
      [readable |-> TRUE,  json |-> TRUE,  list |-> << >>],
      [readable |-> TRUE,  json |-> TRUE,  list |-> << Filter("rent", -1000, 0) >>],
      [readable |-> TRUE,  json |-> TRUE,  list |-> << Filter("(", -1000, 2000), Filter("e", 1000, 2000) >>] }

(* loadFilters: ReadFile, json.Unmarshal, return; no pattern is compiled *)
LoadFiltersResult(file) ==
    IF ~file.readable THEN [err |-> TRUE, filters |-> << >>]
    ELSE IF ~file.json THEN [err |-> TRUE, filters |-> << >>]
    ELSE [err |-> FALSE, filters |-> file.list]

(* isFiltered: the error of MatchString is discarded *)
isFiltered(t, fs) ==
    \E i \in 1..Len(fs) :
        /\ RegexpMatchString(fs[i].FilterRegex, t.Description).match
        /\ t.Amount >= fs[i].MinAmount
        /\ t.Amount <= fs[i].MaxAmount

----------------------------------------------------------------------------
(* compareTransactions, one loop iteration *)

(* PotentialMatches without the test of line 236 *)
PotentialMatchesNoCheck(bankT, budget) ==
    SelectSeq([j \in 1..Len(budget) |-> j],
              LAMBDA j : budget[j].Amount = bankT.Amount)

(* lines 232-245: budget indices with the bank amount and no Matching *)
PotentialMatches(bankT, budget) ==
    SelectSeq([j \in 1..Len(budget) |-> j],
              LAMBDA j : budget[j].Amount = bankT.Amount /\ budget[j].Matching = 0)

(* bankT.Timestamp.Sub(pm.Timestamp).Hours(), timestamps being whole days *)
DeltaHours(bankT, pm) == 24 * (bankT.Timestamp - pm.Timestamp)

(* lines 254-265: state of the selection loop after the first n potential matches *)
RECURSIVE ClosestLoop(_, _, _, _)
ClosestLoop(bankT, budget, pool, n) ==
    IF n = 0 THEN [closest |-> 0, closestDuration |-> closestDurationInit]
    ELSE LET prev == ClosestLoop(bankT, budget, pool, n - 1)
             d == DeltaHours(bankT, budget[pool[n]])
         IN  IF d >= 0 /\ d < prev.closestDuration
               THEN [closest |-> pool[n], closestDuration |-> d]
               ELSE prev

(* the selection loop without the comparison d < closestDuration *)
RECURSIVE ClosestLastLoop(_, _, _, _)
ClosestLastLoop(bankT, budget, pool, n) ==
    IF n = 0 THEN 0
    ELSE IF DeltaHours(bankT, budget[pool[n]]) >= 0
           THEN pool[n]
           ELSE ClosestLastLoop(bankT, budget, pool, n - 1)

ClosestLast(bankT, budget, pool) == ClosestLastLoop(bankT, budget, pool, Len(pool))

Closest(bankT, budget, pool) == ClosestLoop(bankT, budget, pool, Len(pool)).closest

(* lines 269-271: Before(bank + range) and After(bank - range), both strict *)
InRange(bankT, cand) ==
    /\ cand.Timestamp < bankT.Timestamp + dateMatchRangeDays
    /\ cand.Timestamp > bankT.Timestamp - dateMatchRangeDays

(* lines 273-274 *)
CommitBank(bank, i, j) == [bank EXCEPT ![i].Matching = j]

(* line 274 left out *)
CommitBudgetForgotten(budget, i, j) == budget

CommitBudget(budget, i, j) == [budget EXCEPT ![j].Matching = i]

(* line 283 without the test of line 282 *)
AppendMissingAlways(missing, bankT) == Append(missing, bankT)

(* lines 282-284 *)
AppendMissing(missing, bankT) ==
    IF bankT.Matching = 0 THEN Append(missing, bankT) ELSE missing

AppendMissingIndex(missing, bankT, i) ==
    IF bankT.Matching = 0 THEN Append(missing, i) ELSE missing

----------------------------------------------------------------------------
(* Specification of loadFilters followed by compareTransactions *)

Init ==
    /\ pc = "load"
    /\ filterFile \in FilterFiles
    /\ filters = << >>
    /\ bankTransactions \in SeqsUpTo(BankInputs, MaxBank)
    /\ budgetTransactions \in SeqsUpTo(BudgetInputs, MaxBudget)
    /\ bankIndex = 0
    /\ potentialMatches = << >>
    /\ closest = 0
    /\ missingTransactions = << >>
    /\ missingIndex = << >>
    /\ profile = "none"
    /\ records = << >>
    /\ start = -1
    /\ transactions = << >>
    /\ parseResult = "none"

LoadFilters ==
    /\ pc = "load"
    /\ LET r == LoadFiltersResult(filterFile)
       IN  /\ filters' = r.filters
           /\ pc' = IF r.err THEN "fatal" ELSE "compare"
    /\ UNCHANGED <<filterFile, bankTransactions, budgetTransactions, bankIndex,
                   potentialMatches, closest, missingTransactions, missingIndex>>
    /\ UNCHANGED parseVars

(* an iteration that ends at the continue of line 229 *)
CompareFiltered ==
    /\ pc = "compare"
    /\ bankIndex < Len(bankTransactions)
    /\ isFiltered(bankTransactions[bankIndex + 1], filters)
    /\ bankIndex' = bankIndex + 1
    /\ potentialMatches' = << >>
    /\ closest' = 0
    /\ UNCHANGED <<pc, filterFile, filters, bankTransactions, budgetTransactions,
                   missingTransactions, missingIndex>>
    /\ UNCHANGED parseVars

(* an iteration that runs lines 232-284 *)
CompareMatch ==
    /\ pc = "compare"
    /\ bankIndex < Len(bankTransactions)
    /\ ~isFiltered(bankTransactions[bankIndex + 1], filters)
    /\ LET i == bankIndex + 1
           bankT == bankTransactions[i]
           pool == PotentialMatches(bankT, budgetTransactions)
           c == IF Len(pool) > 0 THEN Closest(bankT, budgetTransactions, pool) ELSE 0
           accept == c # 0 /\ InRange(bankT, budgetTransactions[c])
           bank2 == IF accept THEN CommitBank(bankTransactions, i, c) ELSE bankTransactions
           budget2 == IF accept THEN CommitBudget(budgetTransactions, i, c) ELSE budgetTransactions
       IN  /\ potentialMatches' = pool
           /\ closest' = c
           /\ bankTransactions' = bank2
           /\ budgetTransactions' = budget2
           /\ missingTransactions' = AppendMissing(missingTransactions, bank2[i])
           /\ missingIndex' = AppendMissingIndex(missingIndex, bank2[i], i)
           /\ bankIndex' = i
    /\ UNCHANGED <<pc, filterFile, filters>>
    /\ UNCHANGED parseVars

CompareReturn ==
    /\ pc = "compare"
    /\ bankIndex = Len(bankTransactions)
    /\ pc' = "done"
    /\ UNCHANGED compareVars
    /\ UNCHANGED parseVars

Next == LoadFilters \/ CompareFiltered \/ CompareMatch \/ CompareReturn

Spec == Init /\ [][Next]_vars

----------------------------------------------------------------------------
(* Records of the CSV files.  A field is a string; the model keeps what the *)
(* parsers look at: k = "text" with the text in s, k = "date" for a text in *)
(* the layout 01/02/2006 denoting day n, k = "num" / "numsep" for a decimal *)
(* number (without / with thousands separators) of n thousandths.          *)

MaxRows == 4
MaxMills == 1200

Text(str) == [k |-> "text", s |-> str, n |-> 0]
Date(day) == [k |-> "date", s |-> "", n |-> day]
Num(mills) == [k |-> "num", s |-> "", n |-> mills]
NumSep(mills) == [k |-> "numsep", s |-> "", n |-> mills]

(* time.Parse("01/02/2006", field) *)
TimeParse(field) ==
    IF field.k = "date" THEN [err |-> FALSE, t |-> field.n] ELSE [err |-> TRUE, t |-> 0]

(* strconv.ParseFloat(strings.Replace(field, ",", "", -1), 64): the value   *)
(* in thousandths; the double itself is dealt with in AmountCents           *)
ParseFloat(field) ==
    IF field.k \in {"num", "numsep"} THEN [err |-> FALSE, a |-> field.n] ELSE [err |-> TRUE, a |-> 0]

RECURSIVE Pow2(_)
Pow2(k) == IF k = 0 THEN 1 ELSE 2 * Pow2(k - 1)

RECURSIVE Pow2Mod100(_)
Pow2Mod100(k) == IF k = 0 THEN 1 ELSE (2 * Pow2Mod100(k - 1)) % 100

(* binary exponent of the double nearest to n/100: 2^e <= n/100 < 2^(e+1) *)
BinExpCents(n) ==
    CHOOSE e \in -8..20 :
        IF e >= 0 THEN 100 * Pow2(e) <= n /\ n < 200 * Pow2(e)
                  ELSE 100 <= n * Pow2(-e) /\ n * Pow2(-e) < 200

FloorLog2(n) == CHOOSE x \in 0..28 : Pow2(x) <= n /\ n < 2 * Pow2(x)

(* float64 arithmetic of a * 100 for a = the double nearest to n/100, n >= 1:*)
(* with k = 52 - e the mantissa of a is round(n * 2^k / 100), so            *)
(* a * 100 = n + s / 2^k exactly, where s in -49..50 is the rounding error   *)
(* numerator below; the product is then rounded to the doubles around n,     *)
(* whose spacing is 2^(E-52) above n and below n (half of it below a power   *)
(* of two).  TRUE when the rounded product is smaller than n.               *)
ProductBelow(n) ==
    LET e == BinExpCents(n)
        E == FloorLog2(n)
        r == ((n % 100) * Pow2Mod100(52 - e)) % 100
        s == IF r < 50 THEN 0 - r ELSE 100 - r
        D == Pow2(E - e)
    IN  /\ s < 0
        /\ IF n = Pow2(E) THEN 4 * (0 - s) > D ELSE 2 * (0 - s) > D

(* (int)(a * 100) on the magnitude: a text with a non-zero third decimal is *)
(* at least 0.1 away from a whole number of cents, far more than the error  *)
(* of the product, so the conversion drops the third decimal                *)
TruncCents(mag) ==
    IF mag % 10 # 0 THEN mag \div 10
    ELSE IF mag = 0 THEN 0
    ELSE IF ProductBelow(mag \div 10) THEN (mag \div 10) - 1 ELSE mag \div 10

(* line 213: (int)(a * 100), truncation toward zero; float64 is sign-symmetric *)
AmountCents(mills) ==
    IF mills >= 0 THEN TruncCents(mills) ELSE 0 - TruncCents(0 - mills)

(* parseTransaction, with the indices of Go (0-based, detailsIndex -1 = none); *)
(* an index past the end of the record panics                                *)
ParseTransaction(record, timestampIndex, descriptionIndex, amountIndex, detailsIndex) ==
    LET none == Transaction(0, "", "", 0)
        has(i) == i < Len(record)
        at(i) == record[i + 1]
    IN  IF ~has(timestampIndex) THEN [status |-> "panic", t |-> none]
        ELSE IF TimeParse(at(timestampIndex)).err THEN [status |-> "err", t |-> none]
        ELSE IF ~has(amountIndex) THEN [status |-> "panic", t |-> none]
        ELSE IF ParseFloat(at(amountIndex)).err THEN [status |-> "err", t |-> none]
        ELSE IF detailsIndex > 0 /\ ~has(detailsIndex) THEN [status |-> "panic", t |-> none]
        ELSE IF ~has(descriptionIndex) THEN [status |-> "panic", t |-> none]
        ELSE [status |-> "ok",
              t |-> Transaction(TimeParse(at(timestampIndex)).t,
                                at(descriptionIndex).s,
                                IF detailsIndex > 0 THEN at(detailsIndex).s ELSE "",
                                AmountCents(ParseFloat(at(amountIndex)).a))]

(* the loops of lines 163-171 and 179-187 from 0-based row i on *)
RECURSIVE ParseLoop(_, _, _, _, _, _, _)
ParseLoop(recs, i, acc, ti, di, ai, xi) ==
    IF i >= Len(recs) THEN [panic |-> FALSE, transactions |-> acc]
    ELSE LET r == ParseTransaction(recs[i + 1], ti, di, ai, xi)
         IN  IF r.status = "panic" THEN [panic |-> TRUE, transactions |-> << >>]
             ELSE IF r.status = "err" THEN ParseLoop(recs, i + 1, acc, ti, di, ai, xi)
             ELSE ParseLoop(recs, i + 1, Append(acc, r.t), ti, di, ai, xi)

(* line 150 *)
IsHeader(record) ==
    /\ Len(record) > 3
    /\ record[1] = Text("Date")
    /\ record[2] = Text("Description")
    /\ record[3] = Text("Amount")

SetMax(S) == CHOOSE x \in S : \A y \in S : y <= x
SetMin(S) == CHOOSE x \in S : \A y \in S : x <= y

(* lines 148-155: the loop has no break, the last header row decides *)
FindStart(recs) ==
    LET hs == {i \in 0..(Len(recs) - 1) : IsHeader(recs[i + 1])}
    IN  IF hs = {} THEN -1 ELSE SetMax(hs) + 2

BankHeader == <<Text("Date"), Text("Description"), Text("Amount"), Text("Running Bal.")>>
BankHeader3 == <<Text("Date"), Text("Description"), Text("Amount")>>
BankSubHeader == <<Text("Beginning balance"), Text(""), Text(""), Num(100000)>>
BankRows ==
    { BankHeader, BankHeader3, BankSubHeader,
      <<Date(4175), Text("rent"), Num(-500000), Num(95000)>>,
      <<Date(4176), Text("coffee"), NumSep(1200290), Num(94000)>>,
      <<Text("2011-06-07"), Text("rent"), Num(-500000), Num(95000)>>,
      <<Date(4176), Text("rent"), Text("n/a"), Num(95000)>>,
      <<Date(4176), Text("rent")>> }

BudgetHeader == <<Text("Date"), Text("Account"), Text("Payee"), Text("Memo"), Text("Amount")>>
BudgetRows ==
    { BudgetHeader,
      <<Date(4169), Text("checking"), Text("rent"), Text("june"), Num(-500000)>>,
      <<Text("June 7"), Text("checking"), Text("rent"), Text("june"), Num(-500000)>>,
      <<Date(4169), Text("checking"), Text("rent"), Text("june"), Text("")>>,
      <<Date(4169), Text("checking"), Text("rent")>> }

IdleCompare ==
    /\ filterFile = [readable |-> FALSE, json |-> FALSE, list |-> << >>]
    /\ filters = << >>
    /\ bankTransactions = << >>
    /\ budgetTransactions = << >>
    /\ bankIndex = 0
    /\ potentialMatches = << >>
    /\ closest = 0
    /\ missingTransactions = << >>
    /\ missingIndex = << >>

InitParse ==
    /\ pc = "parse"
    /\ profile \in {"bank", "budget"}
    /\ records \in SeqsUpTo(IF profile = "bank" THEN BankRows ELSE BudgetRows, MaxRows)
    /\ start = -1
    /\ transactions = << >>
    /\ parseResult = "none"
    /\ IdleCompare

(* one data row with an amount of m thousandths behind the header rows *)
InitAmount ==
    /\ pc = "parse"
    /\ profile \in {"bank", "budget"}
    /\ \E m \in (0 - MaxMills)..MaxMills :
          records = IF profile = "bank"
                      THEN <<BankHeader, BankSubHeader, <<Date(4175), Text("rent"), Num(m), Num(0)>> >>
                      ELSE <<BudgetHeader, <<Date(4175), Text("checking"), Text("rent"), Text("june"), Num(m)>> >>
    /\ start = -1
    /\ transactions = << >>
    /\ parseResult = "none"
    /\ IdleCompare

ParseBankTransactions ==
    /\ pc = "parse"
    /\ profile = "bank"
    /\ LET st == FindStart(records)
           r == ParseLoop(records, st, << >>, 0, 1, 2, -1)
       IN  /\ start' = st
           /\ IF st < 0
                THEN parseResult' = "error" /\ transactions' = << >>
                ELSE /\ parseResult' = IF r.panic THEN "panic" ELSE "ok"
                     /\ transactions' = r.transactions
    /\ pc' = "parsed"
    /\ UNCHANGED <<profile, records>>
    /\ UNCHANGED compareVars

ParseBudgetTransactions ==
    /\ pc = "parse"
    /\ profile = "budget"
    /\ LET r == ParseLoop(records, 1, << >>, 0, 2, 4, 3)
       IN  /\ parseResult' = IF r.panic THEN "panic" ELSE "ok"
           /\ transactions' = r.transactions
    /\ pc' = "parsed"
    /\ UNCHANGED <<profile, records, start>>
    /\ UNCHANGED compareVars

NextParse == ParseBankTransactions \/ ParseBudgetTransactions

SpecParse == InitParse /\ [][NextParse]_vars

SpecAmount == InitAmount /\ [][NextParse]_vars

----------------------------------------------------------------------------
(* Properties of compareTransactions *)

Comparing == pc \in {"compare", "done"}

Processed == 1..bankIndex

IsIncreasing(s) == \A k \in 1..(Len(s) - 1) : s[k] < s[k + 1]

(* budget entry j had no Matching when bank transaction i was processed *)
AvailableAt(j, i) ==
    budgetTransactions[j].Matching = 0 \/ budgetTransactions[j].Matching >= i

(* C1: the Matching links form a symmetric one-to-one pairing: a bank       *)
(* transaction linked to a budget entry is linked back by it and conversely, *)
(* so no entry is the target of two links.                                  *)
C1_SymmetricPairing ==
    Comparing =>
        /\ \A i \in 1..Len(bankTransactions) :
              LET j == bankTransactions[i].Matching
              IN  j # 0 => /\ j \in 1..Len(budgetTransactions)
                           /\ budgetTransactions[j].Matching = i
        /\ \A j \in 1..Len(budgetTransactions) :
              LET i == budgetTransactions[j].Matching
              IN  i # 0 => /\ i \in 1..Len(bankTransactions)
                           /\ bankTransactions[i].Matching = j
        /\ \A i1, i2 \in 1..Len(bankTransactions) :
              (bankTransactions[i1].Matching # 0
               /\ bankTransactions[i1].Matching = bankTransactions[i2].Matching) => i1 = i2

C1_Witness ==
    /\ pc = "done"
    /\ Len(bankTransactions) = 2
    /\ bankTransactions[1].Matching # 0
    /\ bankTransactions[2].Matching # 0
    /\ bankTransactions[1].Amount = bankTransactions[2].Amount

(* C2: at the return of compareTransactions the missing list holds, in bank *)
(* input order, exactly the bank transactions that are neither filtered nor *)
(* linked; a filtered bank transaction has no link and is not in the list.  *)
C2_MissingPartition ==
    pc = "done" =>
        /\ Len(missingTransactions) = Len(missingIndex)
        /\ IsIncreasing(missingIndex)
        /\ \A k \in 1..Len(missingIndex) :
              /\ missingIndex[k] \in 1..Len(bankTransactions)
              /\ missingTransactions[k] = bankTransactions[missingIndex[k]]
        /\ \A i \in 1..Len(bankTransactions) :
              LET inMissing == \E k \in 1..Len(missingIndex) : missingIndex[k] = i
                  linked == bankTransactions[i].Matching # 0
              IN  IF isFiltered(bankTransactions[i], filters)
                    THEN ~linked /\ ~inMissing
                    ELSE linked # inMissing

C2_Witness ==
    /\ pc = "done"
    /\ Len(bankTransactions) = 2
    /\ bankTransactions[1].Matching # 0
    /\ missingIndex = <<2>>
    /\ \E f \in 1..Len(filters) : TRUE

(* C3 as claimed: the selected candidate is committed exactly when it lies  *)
(* within dateMatchRangeDays days of the bank transaction, bound included,  *)
(* and is reported missing otherwise.                                       *)
AbsDays(a, b) == IF a >= b THEN a - b ELSE b - a

C3_InclusiveRange ==
    (Comparing /\ bankIndex > 0 /\ ~isFiltered(bankTransactions[bankIndex], filters) /\ closest # 0) =>
        LET bankT == bankTransactions[bankIndex]
            within == AbsDays(bankT.Timestamp, budgetTransactions[closest].Timestamp) <= dateMatchRangeDays
        IN  /\ (bankT.Matching = closest) <=> within
            /\ (bankT.Matching = 0) <=> ~within

(* C4 as claimed: the selected candidate is the budget entry with the same  *)
(* amount and no link that has the smallest non-negative delta, the first   *)
(* in budget order among equals, whatever the size of the deltas.           *)
Eligible(i) ==
    {j \in 1..Len(budgetTransactions) :
        /\ budgetTransactions[j].Amount = bankTransactions[i].Amount
        /\ AvailableAt(j, i)
        /\ budgetTransactions[j].Timestamp <= bankTransactions[i].Timestamp}

BestOf(i) ==
    IF Eligible(i) = {} THEN 0
    ELSE CHOOSE j \in Eligible(i) :
            \A k \in Eligible(i) :
                \/ budgetTransactions[j].Timestamp > budgetTransactions[k].Timestamp
                \/ (budgetTransactions[j].Timestamp = budgetTransactions[k].Timestamp /\ j <= k)

C4_SmallestDeltaSelected ==
    (Comparing /\ bankIndex > 0 /\ ~isFiltered(bankTransactions[bankIndex], filters)) =>
        closest = BestOf(bankIndex)

(* C7 as claimed: loadFilters fails when a filter's regex does not compile, *)
(* so the comparison never runs with a malformed pattern.                   *)
C7_MalformedRegexFatalAtLoad ==
    Comparing => \A k \in 1..Len(filters) : filters[k].FilterRegex \notin MalformedPatterns

(* C9: a Matching link, once set on a bank or budget transaction, keeps its *)
(* value in every later step, and a linked budget entry is not in the       *)
(* candidate pool of a later bank transaction.                              *)
C9_MatchesFinal ==
    [][ /\ \A i \in 1..Len(bankTransactions) :
              bankTransactions[i].Matching # 0 =>
                  bankTransactions'[i].Matching = bankTransactions[i].Matching
        /\ \A j \in 1..Len(budgetTransactions) :
              budgetTransactions[j].Matching # 0 =>
                  /\ budgetTransactions'[j].Matching = budgetTransactions[j].Matching
                  /\ bankIndex' # bankIndex =>
                        \A k \in 1..Len(potentialMatches') : potentialMatches'[k] # j
      ]_vars

C9_Witness ==
    /\ bankIndex = 2
    /\ bankTransactions[1].Matching # 0
    /\ bankTransactions[2].Amount = bankTransactions[1].Amount
    /\ ~isFiltered(bankTransactions[2], filters)
    /\ Len(potentialMatches) = 1

(* C10: a bank transaction left unmatched had, when it was processed, no    *)
(* budget entry with the same amount, no link, a timestamp on or before its *)
(* own and a timestamp passing the range check.                             *)
C10_NoAcceptableMatchLost ==
    Comparing =>
        \A i \in Processed :
            (~isFiltered(bankTransactions[i], filters) /\ bankTransactions[i].Matching = 0) =>
                \A j \in Eligible(i) : ~InRange(bankTransactions[i], budgetTransactions[j])

C10_Witness ==
    /\ Comparing
    /\ bankIndex > 0
    /\ ~isFiltered(bankTransactions[bankIndex], filters)
    /\ bankTransactions[bankIndex].Matching = 0
    /\ Len(potentialMatches) = 2
    /\ closest # 0
    /\ Cardinality(Eligible(bankIndex)) = 2

----------------------------------------------------------------------------
(* Properties of the parsers *)

AmountIndex == IF profile = "bank" THEN 2 ELSE 4

FieldCount == IF profile = "bank" THEN 3 ELSE 5

LoopStart == IF profile = "bank" THEN start ELSE 1

WellFormed(record) ==
    /\ Len(record) >= FieldCount
    /\ record[1].k = "date"
    /\ record[AmountIndex + 1].k \in {"num", "numsep"}

(* C5 as claimed: the parser returns normally whatever the rows are, and    *)
(* returns a transaction for every well-formed row of the parsed range; a   *)
(* short row is skipped like a row with a bad date or amount.               *)
C5_BadRowsSkipped ==
    pc = "parsed" =>
        /\ parseResult \in {"ok", "error"}
        /\ parseResult = "ok" =>
              Len(transactions) =
                  Cardinality({i \in LoopStart..(Len(records) - 1) : WellFormed(records[i + 1])})

(* C6 as claimed: parsing starts two rows after the first row whose first   *)
(* three fields are Date, Description, Amount, however many fields that row *)
(* has and whether or not a later row repeats the labels; the parser fails  *)
(* only when no row has them.                                               *)
HasLabels(record) ==
    /\ Len(record) >= 3
    /\ record[1] = Text("Date")
    /\ record[2] = Text("Description")
    /\ record[3] = Text("Amount")

C6_FirstHeaderDecides ==
    (pc = "parsed" /\ profile = "bank") =>
        LET hs == {i \in 0..(Len(records) - 1) : HasLabels(records[i + 1])}
        IN  IF hs = {} THEN parseResult = "error"
            ELSE parseResult # "error" /\ start = SetMin(hs) + 2

(* C8 as claimed: the amount of the parsed transaction is the amount text   *)
(* rounded to the nearest cent (either neighbour for a text half-way), so   *)
(* exactly the text's cents when it has at most two decimals.               *)
C8_RoundToNearestCent ==
    (pc = "parsed" /\ parseResult = "ok" /\ Len(transactions) = 1) =>
        LET mills == records[Len(records)][AmountIndex + 1].n
            diff == 10 * transactions[1].Amount - mills
        IN  diff >= -5 /\ diff <= 5

====
